---- MODULE Spec2Model ----
(***************************************************************************)
(* A model of the stereoscope FileTree (package filetree): a path-indexed  *)
(* tree of files, directories, symbolic links and hard links, its link     *)
(* resolver (File / node / resolveAncestorLinks / resolveNodeLinks), its   *)
(* mutation API (AddFile, AddDir, AddSymLink, AddHardLink, RemovePath,     *)
(* RemoveChildPaths) and the layer merge with whiteout and opaque          *)
(* directory handling.                                                     *)
(*                                                                         *)
(* Paths are strings, exactly as in the Go code ("/a/b"); the path         *)
(* functions work character by character.                                  *)
(***************************************************************************)
EXTENDS Naturals, Sequences, FiniteSets, TLC

VARIABLES lower, upper, minted, walk, ops, last, aliased

vars == <<lower, upper, minted, walk, ops, last, aliased>>

-----------------------------------------------------------------------------
(* Strings *)

DirSeparator == "/"
WhiteoutPrefix == ".wh."
OpaqueWhiteout == ".wh..wh..opq"

Ch(s, i) == SubSeq(s, i, i)

HasPrefix(s, pre) == Len(s) >= Len(pre) /\ SubSeq(s, 1, Len(pre)) = pre

TrimPrefix(s, pre) == IF HasPrefix(s, pre) THEN SubSeq(s, Len(pre) + 1, Len(s)) ELSE s

RECURSIVE TrimRightSep(_)
TrimRightSep(s) ==
    IF Len(s) > 0 /\ Ch(s, Len(s)) = DirSeparator
    THEN TrimRightSep(SubSeq(s, 1, Len(s) - 1))
    ELSE s

RECURSIVE TrimLeftSpace(_)
TrimLeftSpace(s) ==
    IF Len(s) > 0 /\ Ch(s, 1) = " "
    THEN TrimLeftSpace(SubSeq(s, 2, Len(s)))
    ELSE s

\* index of the last "/" in s, 0 when there is none
RECURSIVE LastSep(_, _)
LastSep(s, i) ==
    IF i = 0 THEN 0
    ELSE IF Ch(s, i) = DirSeparator THEN i
    ELSE LastSep(s, i - 1)

\* strings.Split(s, "/"): the pieces between separators, empty pieces kept
RECURSIVE SplitFrom(_, _, _)
SplitFrom(s, start, i) ==
    IF i > Len(s) THEN <<SubSeq(s, start, Len(s))>>
    ELSE IF Ch(s, i) = DirSeparator
         THEN <<SubSeq(s, start, i - 1)>> \o SplitFrom(s, i + 1, i + 1)
         ELSE SplitFrom(s, start, i + 1)

Split(s) == SplitFrom(s, 1, 1)

RECURSIVE JoinSegs(_)
JoinSegs(segs) ==
    IF segs = <<>> THEN ""
    ELSE IF Len(segs) = 1 THEN segs[1]
    ELSE segs[1] \o DirSeparator \o JoinSegs(Tail(segs))

\* the element stack of path.Clean: "" and "." dropped, ".." removes the
\* element before it, is dropped at the root and kept in a relative path
RECURSIVE CleanSegs(_, _, _)
CleanSegs(segs, out, rooted) ==
    IF segs = <<>> THEN out
    ELSE LET s == Head(segs)
             rest == Tail(segs)
         IN  IF s = "" \/ s = "." THEN CleanSegs(rest, out, rooted)
             ELSE IF s = ".."
                  THEN IF Len(out) > 0 /\ out[Len(out)] # ".."
                       THEN CleanSegs(rest, SubSeq(out, 1, Len(out) - 1), rooted)
                       ELSE IF rooted THEN CleanSegs(rest, out, rooted)
                       ELSE CleanSegs(rest, Append(out, s), rooted)
                  ELSE CleanSegs(rest, Append(out, s), rooted)

\* path.Clean (filepath.Clean is the same function on this platform)
Clean(p) ==
    IF p = "" THEN "."
    ELSE LET rooted == Ch(p, 1) = DirSeparator
             out == CleanSegs(Split(p), <<>>, rooted)
         IN  IF rooted THEN DirSeparator \o JoinSegs(out)
             ELSE IF out = <<>> THEN "." ELSE JoinSegs(out)

\* path.Join of two elements: empty elements are ignored, the rest joined and cleaned
Join(a, b) ==
    IF a = "" /\ b = "" THEN ""
    ELSE IF a = "" THEN Clean(b)
    ELSE IF b = "" THEN Clean(a)
    ELSE Clean(a \o DirSeparator \o b)

\* path.Split / filepath.Split: the directory (with its trailing separator) and the file
SplitDir(p) == SubSeq(p, 1, LastSep(p, Len(p)))
SplitFile(p) == SubSeq(p, LastSep(p, Len(p)) + 1, Len(p))

\* path.Base
Base(p) ==
    IF p = "" THEN "."
    ELSE LET t == TrimRightSep(p)
         IN  IF t = "" THEN DirSeparator ELSE SplitFile(t)

RECURSIVE AllSpaces(_)
AllSpaces(s) == Len(s) = 0 \/ (Ch(s, 1) = " " /\ AllSpaces(SubSeq(s, 2, Len(s))))

-----------------------------------------------------------------------------
(* file.Path *)

Normalize(p) ==
    LET lt == IF AllSpaces(p) THEN p ELSE TrimLeftSpace(p)
        t == TrimRightSep(lt)
    IN  IF t = "" THEN DirSeparator ELSE Clean(t)

IsAbsolutePath(p) == HasPrefix(p, DirSeparator)

Basename(p) == Base(p)

IsDirWhiteout(p) == Basename(p) = OpaqueWhiteout

IsWhiteout(p) == HasPrefix(Basename(p), WhiteoutPrefix)

\* ParentPath fails on the root; HasParent tells whether it succeeds
HasParent(p) == ~(Normalize(SplitDir(p)) = DirSeparator /\ SplitFile(p) = "")

ParentPath(p) == Normalize(SplitDir(p))

UnWhiteoutPath(p) == Join(ParentPath(p), TrimPrefix(Basename(p), WhiteoutPrefix))

\* ConstituentPaths("/a/b/c") = <<"/", "/a", "/a/b", "/a/b/c">>
RECURSIVE PrefixPaths(_, _)
PrefixPaths(segs, n) ==
    IF n = 0 THEN <<DirSeparator>>
    ELSE Append(PrefixPaths(segs, n - 1), DirSeparator \o JoinSegs(SubSeq(segs, 1, n)))

ConstituentPaths(p) ==
    LET segs == CleanSegs(Split(p), <<>>, TRUE)
    IN  PrefixPaths(segs, Len(segs))

-----------------------------------------------------------------------------
(* filenode.FileNode and file.Reference *)

TypeDir == "TypeDir"
TypeReg == "TypeReg"
TypeSymlink == "TypeSymlink"
TypeHardLink == "TypeHardLink"

\* the nil *file.Reference
NoRef == [id |-> 0, RealPath |-> ""]

\* the nil *FileNode
Nil == [RealPath |-> "", FileType |-> "nil", LinkPath |-> "", Reference |-> NoRef]

NewDir(p, ref) == [RealPath |-> p, FileType |-> TypeDir, LinkPath |-> "", Reference |-> ref]
NewFile(p, ref) == [RealPath |-> p, FileType |-> TypeReg, LinkPath |-> "", Reference |-> ref]
NewSymLink(p, l, ref) == [RealPath |-> p, FileType |-> TypeSymlink, LinkPath |-> l, Reference |-> ref]
NewHardLink(p, l, ref) == [RealPath |-> p, FileType |-> TypeHardLink, LinkPath |-> l, Reference |-> ref]

IsLink(n) == n.FileType = TypeHardLink \/ n.FileType = TypeSymlink

\* file.NewFileReference: a fresh handle; the n-th handle minted for a path
NewFileReference(p, m) == [id |-> m[p] + 1, RealPath |-> p]

Mint(m, p) == [m EXCEPT ![p] = @ + 1]

-----------------------------------------------------------------------------
(* tree.Tree: nodes keyed by ID (the real path); a node's parent is the    *)
(* node it was added under, which setFileNode always takes at ParentPath.  *)

NewFileTree == [k \in {DirSeparator} |-> NewDir(DirSeparator, NoRef)]

TreeNode(t, id) == IF id \in DOMAIN t THEN t[id] ELSE Nil

TreeChildren(t, id) == {k \in DOMAIN t : HasParent(k) /\ ParentPath(k) = id /\ k # id}

RECURSIVE TreeSubtree(_, _)
TreeSubtree(t, id) == {id} \cup UNION {TreeSubtree(t, c) : c \in TreeChildren(t, id)}

TreeRemoveNode(t, id) == [k \in DOMAIN t \ TreeSubtree(t, id) |-> t[k]]

TreeReplace(t, n) == [t EXCEPT ![n.RealPath] = n]

TreeAddChild(t, n) == [k \in DOMAIN t \cup {n.RealPath} |-> IF k = n.RealPath THEN n ELSE t[k]]

TreeLength(t) == Cardinality(DOMAIN t)

-----------------------------------------------------------------------------
(* The resolver *)

NoErr == "nil"
ErrRemovingRoot == "ErrRemovingRoot"
ErrLinkCycleDetected == "ErrLinkCycleDetected"
\* a recursion that never returns: the Go runtime aborts the program
StackOverflow == "StackOverflow"
ErrKindMismatch == "already exists but is NOT"
ErrNoParent == "unable to determine parent path"

Res(p, n, e, s) == [path |-> p, node |-> n, err |-> e, steps |-> s]

\* the link target a link node is followed to (resolveNodeLinks, lines 278-288)
NextPath(n) ==
    IF IsAbsolutePath(n.LinkPath) THEN n.LinkPath
    ELSE Clean(Join(SplitDir(n.RealPath), n.LinkPath))

RECURSIVE AncestorLoop(_, _, _, _, _, _, _)
RECURSIVE NodeLinksLoop(_, _, _, _, _, _, _, _, _)

\* resolveNodeLinks.  active holds the nodes whose resolveNodeLinks call is
\* still on the call stack: the function is deterministic in (tree, node),
\* so entering it again for one of them repeats the same nested call without
\* end.
ResolveNodeLinks(t, n, followDeadBasenameLinks, active, steps) ==
    IF n.RealPath \in active
    THEN Res(n.RealPath, Nil, StackOverflow, steps)
    ELSE NodeLinksLoop(t, n, n.RealPath, Nil, "", {}, followDeadBasenameLinks,
                       active \cup {n.RealPath}, steps)

\* resolveAncestorLinks after the link at an ancestor part was resolved to r
AncestorAfterLink(t, pathParts, idx, r, active) ==
    IF r.err # NoErr THEN r
    ELSE AncestorLoop(t, pathParts, idx + 1, r.path, r.node, active, r.steps)

\* a resolveNodeLinks that notes the path it has arrived at as seen, next to
\* the path of the link it has followed
NodeLinksAfterAncestors_SeesNext(t, r, currentNode, currentPath, alreadySeen, followDeadBasenameLinks, active) ==
    IF r.err # NoErr THEN r
    ELSE NodeLinksLoop(t, r.node, r.path, currentNode, currentPath,
                       alreadySeen \cup {currentPath, r.path},
                       followDeadBasenameLinks, active, r.steps)

\* resolveNodeLinks after the ancestors of the link target were resolved to r
NodeLinksAfterAncestors(t, r, currentNode, currentPath, alreadySeen, followDeadBasenameLinks, active) ==
    IF r.err # NoErr THEN r
    ELSE NodeLinksLoop(t, r.node, r.path, currentNode, currentPath,
                       alreadySeen \cup {currentPath},
                       followDeadBasenameLinks, active, r.steps)

\* resolveAncestorLinks
ResolveAncestorLinks(t, p, active, steps) ==
    AncestorLoop(t, Split(Normalize(p)), 1, "", Nil, active, steps)

\* the loop of resolveAncestorLinks from part idx on (idx is 1-based here)
AncestorLoop(t, pathParts, idx, currentPath, currentNode, active, steps) ==
    IF idx > Len(pathParts) THEN Res(currentPath, currentNode, NoErr, steps)
    ELSE LET part == pathParts[idx] IN
         IF (part = "" \/ part = DirSeparator) /\ idx = 1
         THEN AncestorLoop(t, pathParts, idx + 1, currentPath, currentNode, active, steps)
         ELSE LET cp == Normalize(currentPath \o DirSeparator \o part)
                  cn == TreeNode(t, cp)
              IN  IF cn = Nil THEN Res(cp, Nil, NoErr, steps)
                  ELSE IF cn.Reference = NoRef
                  THEN AncestorLoop(t, pathParts, idx + 1, cp, cn, active, steps)
                  ELSE IF idx # Len(pathParts) /\ IsLink(cn)
                  THEN AncestorAfterLink(t, pathParts, idx,
                                         ResolveNodeLinks(t, cn, TRUE, active, steps), active)
                  ELSE AncestorLoop(t, pathParts, idx + 1, cp, cn, active, steps)

\* the loop of resolveNodeLinks
NodeLinksLoop(t, currentNode, currentPath, lastNode, lastPath, alreadySeen, followDeadBasenameLinks, active, steps) ==
    LET finish == IF currentNode = Nil /\ ~followDeadBasenameLinks
                  THEN Res(lastPath, lastNode, NoErr, steps)
                  ELSE Res(currentPath, currentNode, NoErr, steps)
    IN  IF currentNode = Nil THEN finish
        ELSE IF currentPath \in alreadySeen
        THEN Res(currentPath, Nil, ErrLinkCycleDetected, steps)
        ELSE IF ~IsLink(currentNode) THEN finish
        ELSE IF NextPath(currentNode) = "" THEN finish
        ELSE NodeLinksAfterAncestors(
                 t, ResolveAncestorLinks(t, NextPath(currentNode), active, steps + 1),
                 currentNode, currentPath, alreadySeen, followDeadBasenameLinks, active)

\* linkResolutionStrategy
Strategy(anc, base, noDead) ==
    [FollowAncestorLinks |-> anc, FollowBasenameLinks |-> base,
     DoNotFollowDeadBasenameLinks |-> noDead]

NoFollow == Strategy(FALSE, FALSE, FALSE)

FollowLinks(strategy) == strategy.FollowAncestorLinks \/ strategy.FollowBasenameLinks

\* a node function that gives up a node that is no link when dead links are
\* not to be followed
NodeBasename_DropsPlain(t, strategy, a) ==
    IF a.err # NoErr THEN a
    ELSE IF a.node = Nil THEN a
    ELSE IF strategy.FollowBasenameLinks
    THEN IF strategy.DoNotFollowDeadBasenameLinks /\ ~IsLink(a.node)
         THEN Res(a.path, Nil, NoErr, a.steps)
         ELSE ResolveNodeLinks(t, a.node, ~strategy.DoNotFollowDeadBasenameLinks, {}, a.steps)
    ELSE a

\* FileTree.node from the result a of its ancestor step on
NodeBasename(t, strategy, a) ==
    IF a.err # NoErr THEN a
    ELSE IF a.node = Nil THEN a
    ELSE IF strategy.FollowBasenameLinks
    THEN ResolveNodeLinks(t, a.node, ~strategy.DoNotFollowDeadBasenameLinks, {}, a.steps)
    ELSE a

\* FileTree.node
Node(t, p, strategy) ==
    IF ~FollowLinks(strategy) THEN Res(p, TreeNode(t, p), NoErr, 0)
    ELSE NodeBasename(t, strategy,
                      IF strategy.FollowAncestorLinks
                      THEN ResolveAncestorLinks(t, p, {}, 0)
                      ELSE Res(p, TreeNode(t, p), NoErr, 0))

\* the options of File: FollowBasenameLinks, DoNotFollowDeadBasenameLinks
Options == {{}, {"FollowBasenameLinks"}, {"DoNotFollowDeadBasenameLinks"},
            {"FollowBasenameLinks", "DoNotFollowDeadBasenameLinks"}}

newLinkResolutionStrategy(options) ==
    Strategy(FALSE, "FollowBasenameLinks" \in options,
             "DoNotFollowDeadBasenameLinks" \in options)

FileRes(ex, ref, e, s) == [exists |-> ex, ref |-> ref, err |-> e, steps |-> s]

\* the end of FileTree.File: what it returns for the resolved node r
FileResolved(r) ==
    IF r.node # Nil THEN FileRes(TRUE, r.node.Reference, r.err, r.steps)
    ELSE FileRes(FALSE, NoRef, r.err, r.steps)

\* FileTree.File from the direct lookup d on
FileDirect(t, p, userStrategy, d) ==
    IF d.node # Nil /\ (~IsLink(d.node) \/ (IsLink(d.node) /\ ~userStrategy.FollowBasenameLinks))
    THEN FileRes(TRUE, d.node.Reference, NoErr, 0)
    ELSE FileResolved(Node(t, p, Strategy(TRUE, userStrategy.FollowBasenameLinks,
                                          userStrategy.DoNotFollowDeadBasenameLinks)))

\* FileTree.File
File(t, p, options) ==
    FileDirect(t, p, newLinkResolutionStrategy(options), Node(t, p, NoFollow))

\* what HasPath makes of the result f of File
FileExists(f) == IF f.err # NoErr THEN FALSE ELSE f.exists

\* FileTree.HasPath
HasPath(t, p) == FileExists(File(t, p, {"FollowBasenameLinks"}))

\* HasPath never returns when the lookup recurses without end
HasPathDiverges(t, p) == File(t, p, {"FollowBasenameLinks"}).err = StackOverflow

-----------------------------------------------------------------------------
(* The mutation API.  An operation returns the tree it leaves behind, the  *)
(* reference counter, its error and the reference it hands back.           *)

Out(t, m, e, ref) == [tree |-> t, minted |-> m, err |-> e, ref |-> ref]

ErrMissingParent == "unable to find parent path"
ErrRemoveRootNode == "unable to remove the root node"

\* FileTree.setFileNode
setFileNode(t, fn) ==
    IF TreeNode(t, fn.RealPath) # Nil THEN [tree |-> TreeReplace(t, fn), err |-> NoErr]
    ELSE IF ~HasParent(fn.RealPath) THEN [tree |-> t, err |-> ErrNoParent]
    ELSE IF TreeNode(t, ParentPath(fn.RealPath)) = Nil THEN [tree |-> t, err |-> ErrMissingParent]
    ELSE [tree |-> TreeAddChild(t, fn), err |-> NoErr]

\* the first loop of addParentPaths: the constituent paths, deepest first,
\* up to the first one that has a node
RECURSIVE PathsToAdd(_, _, _)
PathsToAdd(t, parentPaths, idx) ==
    IF idx = 0 THEN <<>>
    ELSE IF TreeNode(t, parentPaths[idx]) # Nil THEN <<>>
    ELSE <<parentPaths[idx]>> \o PathsToAdd(t, parentPaths, idx - 1)

\* a second loop that gives every directory it adds a reference of its own
RECURSIVE AddBareDirs_WithReference(_, _, _)
AddBareDirs_WithReference(t, pathsToAdd, idx) ==
    IF idx = 0 THEN [tree |-> t, err |-> NoErr]
    ELSE LET r == setFileNode(t, NewDir(pathsToAdd[idx], [id |-> 1, RealPath |-> pathsToAdd[idx]]))
         IN  IF r.err # NoErr THEN r ELSE AddBareDirs_WithReference(r.tree, pathsToAdd, idx - 1)

\* the second loop of addParentPaths: a bare directory for each path, last to first
RECURSIVE AddBareDirs(_, _, _)
AddBareDirs(t, pathsToAdd, idx) ==
    IF idx = 0 THEN [tree |-> t, err |-> NoErr]
    ELSE LET r == setFileNode(t, NewDir(pathsToAdd[idx], NoRef))
         IN  IF r.err # NoErr THEN r ELSE AddBareDirs(r.tree, pathsToAdd, idx - 1)

\* FileTree.addParentPaths
addParentPaths(t, realPath) ==
    IF ~HasParent(realPath) THEN [tree |-> t, err |-> ErrNoParent]
    ELSE IF TreeNode(t, ParentPath(realPath)) # Nil THEN [tree |-> t, err |-> NoErr]
    ELSE LET parentPaths == ConstituentPaths(realPath)
             pathsToAdd == PathsToAdd(t, parentPaths, Len(parentPaths))
         IN  AddBareDirs(t, pathsToAdd, Len(pathsToAdd))

\* an Add* body that overwrites a node of another kind with the new node
AddNode_ReplacesOnMismatch(t, m, newFn) ==
    IF TreeNode(t, newFn.RealPath) = Nil
    THEN Out(setFileNode(addParentPaths(t, newFn.RealPath).tree, newFn).tree,
             Mint(m, newFn.RealPath), NoErr, newFn.Reference)
    ELSE IF TreeNode(t, newFn.RealPath).FileType # newFn.FileType
    THEN Out(TreeReplace(t, newFn), Mint(m, newFn.RealPath), NoErr, newFn.Reference)
    ELSE IF TreeNode(t, newFn.RealPath).Reference = NoRef
    THEN Out(TreeReplace(t, newFn), Mint(m, newFn.RealPath), NoErr, newFn.Reference)
    ELSE Out(t, m, NoErr, TreeNode(t, newFn.RealPath).Reference)

\* an Add* body that gives a node of the same kind a new reference each time
AddNode_AlwaysFresh(t, m, newFn) ==
    IF TreeNode(t, newFn.RealPath) = Nil
    THEN Out(setFileNode(addParentPaths(t, newFn.RealPath).tree, newFn).tree,
             Mint(m, newFn.RealPath), NoErr, newFn.Reference)
    ELSE IF TreeNode(t, newFn.RealPath).FileType # newFn.FileType
    THEN Out(t, m, ErrKindMismatch, NoRef)
    ELSE Out([t EXCEPT ![newFn.RealPath].Reference = newFn.Reference],
             Mint(m, newFn.RealPath), NoErr, newFn.Reference)

\* an Add* body that gives a link added again the target of the new call
AddNode_ReplacesTarget(t, m, newFn) ==
    IF TreeNode(t, newFn.RealPath) = Nil
    THEN Out(setFileNode(addParentPaths(t, newFn.RealPath).tree, newFn).tree,
             Mint(m, newFn.RealPath), NoErr, newFn.Reference)
    ELSE IF TreeNode(t, newFn.RealPath).FileType # newFn.FileType
    THEN Out(t, m, ErrKindMismatch, NoRef)
    ELSE Out([t EXCEPT ![newFn.RealPath].LinkPath = newFn.LinkPath],
             m, NoErr, TreeNode(t, newFn.RealPath).Reference)

\* the common body of AddFile, AddSymLink, AddHardLink and AddDir: newFn is
\* the node the call builds for a new path
AddNode(t, m, newFn) ==
    LET realPath == newFn.RealPath
        fn == TreeNode(t, realPath)
    IN  IF fn # Nil
        THEN IF fn.FileType # newFn.FileType THEN Out(t, m, ErrKindMismatch, NoRef)
             ELSE IF fn.Reference = NoRef
             THEN Out([t EXCEPT ![realPath].Reference = NewFileReference(realPath, m)],
                      Mint(m, realPath), NoErr, NewFileReference(realPath, m))
             ELSE Out(t, m, NoErr, fn.Reference)
        ELSE LET a == addParentPaths(t, realPath)
             IN  IF a.err # NoErr THEN Out(a.tree, m, a.err, NoRef)
                 ELSE LET r == setFileNode(a.tree, newFn)
                      IN  Out(r.tree, Mint(m, realPath), r.err, newFn.Reference)

AddFile(t, m, realPath) == AddNode(t, m, NewFile(realPath, NewFileReference(realPath, m)))

AddSymLink(t, m, realPath, linkPath) ==
    AddNode(t, m, NewSymLink(realPath, linkPath, NewFileReference(realPath, m)))

AddHardLink(t, m, realPath, linkPath) ==
    AddNode(t, m, NewHardLink(realPath, linkPath, NewFileReference(realPath, m)))

AddDir(t, m, realPath) == AddNode(t, m, NewDir(realPath, NewFileReference(realPath, m)))

\* tree.RemoveNode as FileTree uses it: the node and its descendants go;
\* the root cannot be removed
RemoveNode(t, id) ==
    IF id = DirSeparator THEN [tree |-> t, err |-> ErrRemoveRootNode]
    ELSE [tree |-> TreeRemoveNode(t, id), err |-> NoErr]

\* RemovePath that takes out the node alone and leaves what was under it
RemoveResolved_OnlyNode(t, r) ==
    IF r.err # NoErr THEN [tree |-> t, err |-> r.err]
    ELSE IF r.node = Nil THEN [tree |-> t, err |-> NoErr]
    ELSE IF r.node.RealPath = DirSeparator THEN [tree |-> t, err |-> ErrRemoveRootNode]
    ELSE [tree |-> [k \in DOMAIN t \ {r.node.RealPath} |-> t[k]], err |-> NoErr]

\* FileTree.RemovePath from the resolved node r on
RemoveResolved(t, r) ==
    IF r.err # NoErr THEN [tree |-> t, err |-> r.err]
    ELSE IF r.node = Nil THEN [tree |-> t, err |-> NoErr]
    ELSE RemoveNode(t, r.node.RealPath)

\* RemovePath without the check for the root
RemovePath_NoRootCheck(t, p) ==
    RemoveResolved(t, Node(t, p, Strategy(TRUE, FALSE, FALSE)))

\* FileTree.RemovePath
RemovePath(t, p) ==
    IF Normalize(p) = DirSeparator THEN [tree |-> t, err |-> ErrRemovingRoot]
    ELSE RemoveResolved(t, Node(t, p, Strategy(TRUE, FALSE, FALSE)))

\* FileTree.RemoveChildPaths from the resolved node r on
RemoveChildrenResolved(t, r) ==
    IF r.err # NoErr THEN [tree |-> t, err |-> r.err]
    ELSE IF r.node = Nil THEN [tree |-> t, err |-> NoErr]
    ELSE [tree |-> [k \in DOMAIN t \ UNION {TreeSubtree(t, c) : c \in TreeChildren(t, r.node.RealPath)} |-> t[k]],
          err |-> NoErr]

\* FileTree.RemoveChildPaths
RemoveChildPaths(t, p) == RemoveChildrenResolved(t, Node(t, p, Strategy(TRUE, TRUE, FALSE)))

\* what ListPaths returns: the listed path of each child (the slice, whose
\* order is the order of tree.Children, keyed by the child) and the error
ListRes(listing, e) == [listing |-> listing, err |-> e]

\* the base path ListPaths looks up for the child with real path c
ListBase(t, c) == Node(t, c, Strategy(TRUE, FALSE, FALSE))

\* a loop that lists every child by the real path it is stored at
ListChildren_RealPaths(t, dir, cs) == ListRes([c \in cs |-> c], NoErr)

\* the loop of ListPaths over the children cs of the resolved directory
ListChildren(t, dir, cs) ==
    IF \E c \in cs : ListBase(t, c).err # NoErr
    THEN ListRes(<<>>, ListBase(t, CHOOSE c \in cs : ListBase(t, c).err # NoErr).err)
    ELSE ListRes([c \in cs |-> Join(dir, Basename(ListBase(t, c).path))], NoErr)

\* FileTree.ListPaths from the resolved node n on
ListResolved(t, dir, n) ==
    IF n.err # NoErr THEN ListRes(<<>>, n.err)
    ELSE IF n.node = Nil THEN ListRes(<<>>, NoErr)
    ELSE IF n.node.FileType # TypeDir THEN ListRes(<<>>, NoErr)
    ELSE ListChildren(t, dir, TreeChildren(t, n.node.RealPath))

\* FileTree.ListPaths
ListPaths(t, dir) == ListResolved(t, dir, Node(t, dir, Strategy(TRUE, TRUE, FALSE)))

\* a copy that hands out the node objects of the tree it copies
CopyShares_All(t) == DOMAIN t

\* the paths at which a copy of t holds the very node object t holds:
\* tree.Copy clones every node by value, so there is none
CopyShares(t) == {}

\* the tree other after a call has taken this tree to the tree after, when
\* the two trees hold the same node object at the paths of shared: a
\* reference attached in place to such a node shows in both trees
Through(other, after, shared) ==
    [k \in DOMAIN other |-> IF k \in shared THEN after[k] ELSE other[k]]

\* FileTree.Copy: the nodes are cloned by value, the references shared
Copy(t) == [k \in DOMAIN t |-> [RealPath |-> t[k].RealPath, FileType |-> t[k].FileType,
                                LinkPath |-> t[k].LinkPath, Reference |-> t[k].Reference]]

\* a visit that grafts the node object of upper itself into the lower tree
SharedAfterVisit_GraftsNode(shared, t, id) ==
    (shared \cap DOMAIN t) \cup ({id} \cap DOMAIN t)

\* the paths at which the two trees hold the same node object after the
\* visitor of merge has taken the lower tree to t at upper node id: the
\* node it sets is a copy of the upper node, a new object
SharedAfterVisit(shared, t, id) == (shared \cap DOMAIN t) \ {id}

\* FileTree.PathDiff: the paths only other has, and the paths only t has
PathDiff(t, other) ==
    [extra |-> {k \in DOMAIN other : k \notin DOMAIN t},
     missing |-> {k \in DOMAIN t : k \notin DOMAIN other}]

\* FileTree.Equal
Equal(t, other) ==
    IF TreeLength(t) # TreeLength(other) THEN FALSE
    ELSE PathDiff(t, other).extra = {} /\ PathDiff(t, other).missing = {}

-----------------------------------------------------------------------------
(* merge *)

\* the path hasOpaqueDirectory looks up
opaqueWhiteoutChild(directoryPath) == Join(directoryPath, OpaqueWhiteout)

\* FileTree.hasOpaqueDirectory
hasOpaqueDirectory(t, directoryPath) == HasPath(t, opaqueWhiteoutChild(directoryPath))

\* the walk conditions of merge
ShouldContinueBranch(id) == ~IsWhiteout(id)
ShouldVisit(id) == ~IsDirWhiteout(id)

\* the visitor of merge where the upper node is no whiteout: the parents a
\* the lower tree got, then the node set over originalNode
VisitSet(a, upperNode, originalNode) ==
    IF a.err # NoErr THEN a
    ELSE setFileNode(a.tree,
                     IF originalNode # Nil /\ originalNode.Reference # NoRef
                        /\ upperNode.Reference = NoRef
                        /\ upperNode.FileType = originalNode.FileType
                     THEN [upperNode EXCEPT !.Reference = originalNode.Reference]
                     ELSE upperNode)

\* the visitor of merge where the upper node is no whiteout
VisitAdd(t, upperNode, originalNode) ==
    VisitSet(IF originalNode = Nil THEN addParentPaths(t, upperNode.RealPath)
             ELSE [tree |-> t, err |-> NoErr],
             upperNode, originalNode)

\* the visitor of merge after the opaque directory step, on lower tree t
VisitNode(t, upperNode) ==
    IF IsWhiteout(upperNode.RealPath)
    THEN RemovePath(t, UnWhiteoutPath(upperNode.RealPath))
    ELSE VisitAdd(t, upperNode, Node(t, upperNode.RealPath, NoFollow).node)

\* the visitor of merge once the children of an opaque directory were
\* removed with outcome c
VisitCleared(c, upperNode) == IF c.err # NoErr THEN c ELSE VisitNode(c.tree, upperNode)

\* the visitor of merge from the lookup f that hasOpaqueDirectory makes on
VisitOpaque(t, upperNode, f) ==
    IF f.err = StackOverflow THEN [tree |-> t, err |-> StackOverflow]
    ELSE IF FileExists(f)
    THEN VisitCleared(RemoveChildPaths(t, upperNode.RealPath), upperNode)
    ELSE VisitNode(t, upperNode)

\* the visitor of merge: lower tree t, upper tree u, upper node upperNode
Visitor(t, u, upperNode) ==
    VisitOpaque(t, upperNode,
                File(u, opaqueWhiteoutChild(upperNode.RealPath), {"FollowBasenameLinks"}))

\* tree.Children: the direct children in an order the tree store leaves
\* open; every order they can come in
RECURSIVE Children(_)
Children(S) ==
    IF S = {} THEN {<<>>}
    ELSE UNION {{<<x>> \o o : o \in Children(S \ {x})} : x \in S}

-----------------------------------------------------------------------------
(* The state machine.  lower is the tree the operations act on and the     *)
(* receiver of merge; upper is the tree merged onto it; minted counts the  *)
(* references handed out per path; walk is the stack of the merge walker   *)
(* (next node first), empty when no merge is running; ops counts the       *)
(* operations called so far; last records the operation that ran last,    *)
(* its arguments and what it returned.                                     *)

\* how many operations a run makes
MaxOps == 4

\* the inputs of the operations on a single tree
TreePaths == {"/a", "/b", "/a/b"}
SymTargets == {"/a", "b", "/a/b", "/"}
HardPaths == {"/b"}
HardTargets == {"/a", "/a/b"}
RemovePaths == {"/a", "/b", "/a/b", "/a/..", "/"}
ChildPaths == {"/", "/a", "/b"}
QueryPaths == {"/a", "/b/b"}

\* the inputs of the operations around merge
LowerPaths == {"/a", "/a/b", "/b"}
LowerDirs == {"/", "/a", "/b"}
LowerLinks == {"/a", "/b"}
LowerTargets == {"/b", "/a/b"}
LowerRemovePaths == {"/a", "/a/b", "/a/.."}
LowerChildPaths == {"/a"}
UpperPaths == {"/a", "/a/a", "/a/b", "/a/.wh.b", "/a/.wh..wh..opq"}
UpperDirs == {"/a"}
UpperLinks == {"/a"}
UpperTargets == {"/a/a", "/b"}

MintPaths == TreePaths \cup LowerPaths \cup LowerDirs \cup UpperPaths \cup {"/a/b/.wh..wh..opq"}

Last(op, p, l, o, e, ex, ref) ==
    [op |-> op, path |-> p, link |-> l, options |-> o, err |-> e, exists |-> ex, ref |-> ref]

Init ==
    /\ lower = NewFileTree
    /\ upper = NewFileTree
    /\ minted = [p \in MintPaths |-> 0]
    /\ walk = <<>>
    /\ ops = 0
    /\ last = Last("NewFileTree", "", "", {}, NoErr, FALSE, NoRef)
    /\ aliased = {}

\* the program runs, no merge is under way, and the run may go on
Idle == last.err # StackOverflow /\ walk = <<>> /\ ops < MaxOps

\* an Add* call on the lower tree with outcome r
AddLower(op, p, l, r) ==
    /\ Idle
    /\ ops' = ops + 1
    /\ lower' = r.tree
    /\ upper' = Through(upper, r.tree, aliased)
    /\ minted' = r.minted
    /\ last' = Last(op, p, l, {}, r.err, FALSE, r.ref)
    /\ UNCHANGED <<walk, aliased>>

\* an Add* call on the upper tree with outcome r
AddUpper(op, p, l, r) ==
    /\ Idle
    /\ ops' = ops + 1
    /\ upper' = r.tree
    /\ lower' = Through(lower, r.tree, aliased)
    /\ minted' = r.minted
    /\ last' = Last(op, p, l, {}, r.err, FALSE, r.ref)
    /\ UNCHANGED <<walk, aliased>>

AddFileIn(P) == \E p \in P : AddLower("AddFile", p, "", AddFile(lower, minted, p))

AddDirIn(P) == \E p \in P : AddLower("AddDir", p, "", AddDir(lower, minted, p))

AddSymLinkIn(P, T) ==
    \E p \in P, l \in T : AddLower("AddSymLink", p, l, AddSymLink(lower, minted, p, l))

AddHardLinkIn(P, T) ==
    \E p \in P, l \in T : AddLower("AddHardLink", p, l, AddHardLink(lower, minted, p, l))

\* a Remove* call on the lower tree with outcome r
RemoveLower(op, p, r) ==
    /\ Idle
    /\ ops' = ops + 1
    /\ lower' = r.tree
    /\ aliased' = aliased \cap DOMAIN r.tree
    /\ last' = Last(op, p, "", {}, r.err, FALSE, NoRef)
    /\ UNCHANGED <<upper, minted, walk>>

RemovePathIn(P) == \E p \in P : RemoveLower("RemovePath", p, RemovePath(lower, p))

RemoveChildPathsIn(P) ==
    \E p \in P : RemoveLower("RemoveChildPaths", p, RemoveChildPaths(lower, p))

\* a File call on the lower tree with outcome f
Query(p, o, f) ==
    /\ Idle
    /\ ops' = ops + 1
    /\ last' = Last("File", p, "", o, f.err, f.exists, f.ref)
    /\ UNCHANGED <<lower, upper, minted, walk, aliased>>

(* Operations on one tree *)

DoAddFile == AddFileIn(TreePaths)
DoAddDir == AddDirIn(TreePaths)
DoAddSymLink == AddSymLinkIn(TreePaths, SymTargets)
DoAddHardLink == AddHardLinkIn(HardPaths, HardTargets)
DoRemovePath == RemovePathIn(RemovePaths)
DoRemoveChildPaths == RemoveChildPathsIn(ChildPaths)

DoFile == \E p \in QueryPaths, o \in Options : Query(p, o, File(lower, p, o))

Next ==
    \/ DoAddFile
    \/ DoAddDir
    \/ DoAddSymLink
    \/ DoAddHardLink
    \/ DoRemovePath
    \/ DoRemoveChildPaths
    \/ DoFile

Spec == Init /\ [][Next]_vars

(* Add* and ListPaths on one tree *)

ListDirs == {"/", "/a", "/b"}

\* a ListPaths call on the lower tree with outcome r
Listed(dir, r) ==
    /\ Idle
    /\ ops' = ops + 1
    /\ last' = [op |-> "ListPaths", path |-> dir, link |-> "", options |-> {}, err |-> r.err,
                exists |-> FALSE, ref |-> NoRef, listing |-> r.listing]
    /\ UNCHANGED <<lower, upper, minted, walk, aliased>>

DoListPaths == \E dir \in ListDirs : Listed(dir, ListPaths(lower, dir))

NextList ==
    \/ DoAddFile
    \/ DoAddDir
    \/ DoAddSymLink
    \/ DoAddHardLink
    \/ DoListPaths

SpecList == Init /\ [][NextList]_vars

(* Operations on two trees and merge *)

LowerAddFile == AddFileIn(LowerPaths)
LowerAddDir == AddDirIn(LowerDirs)
LowerAddSymLink == AddSymLinkIn(LowerLinks, LowerTargets)
LowerRemovePath == RemovePathIn(LowerRemovePaths)
LowerRemoveChildPaths == RemoveChildPathsIn(LowerChildPaths)

UpperAddFile == \E p \in UpperPaths : AddUpper("UpperAddFile", p, "", AddFile(upper, minted, p))

UpperAddDir == \E p \in UpperDirs : AddUpper("UpperAddDir", p, "", AddDir(upper, minted, p))

UpperAddSymLink ==
    \E p \in UpperLinks, l \in UpperTargets :
        AddUpper("UpperAddSymLink", p, l, AddSymLink(upper, minted, p, l))

\* upper becomes a copy of lower
DoCopy ==
    /\ Idle
    /\ ops' = ops + 1
    /\ upper' = Copy(lower)
    /\ aliased' = CopyShares(lower)
    /\ last' = Last("Copy", "", "", {}, NoErr, FALSE, NoRef)
    /\ UNCHANGED <<lower, minted, walk>>

\* lower.merge(upper) begins: the walker starts at the root of upper.
\* last.exists notes whether upper is a copy of lower.
MergeStart ==
    /\ Idle
    /\ ops' = ops + 1
    /\ walk' = <<DirSeparator>>
    /\ last' = Last("merge", "", "", {}, NoErr, upper = Copy(lower), NoRef)
    /\ UNCHANGED <<lower, upper, minted, aliased>>

\* one iteration of the depth first walker over upper: the node on top of
\* the stack is visited, and its children are pushed
\* the walker has called the visitor on node id with outcome v and pushes
\* the children of id
Walked(id, v) ==
    /\ lower' = v.tree
    /\ aliased' = SharedAfterVisit(aliased, v.tree, id)
    /\ \E children \in Children(TreeChildren(upper, id)) :
           walk' = IF v.err # NoErr THEN <<>>
                   ELSE IF ShouldContinueBranch(id) THEN children \o Tail(walk)
                   ELSE Tail(walk)
    /\ last' = Last("merge", id, "", {}, v.err, last.exists, NoRef)

MergeStep ==
    /\ last.err # StackOverflow
    /\ walk # <<>>
    /\ Walked(Head(walk),
              IF ShouldVisit(Head(walk)) THEN Visitor(lower, upper, upper[Head(walk)])
              ELSE [tree |-> lower, err |-> NoErr])
    /\ UNCHANGED <<upper, minted, ops>>

NextMerge ==
    \/ LowerAddFile
    \/ LowerAddDir
    \/ LowerAddSymLink
    \/ LowerRemovePath
    \/ LowerRemoveChildPaths
    \/ UpperAddFile
    \/ UpperAddDir
    \/ UpperAddSymLink
    \/ DoCopy
    \/ MergeStart
    \/ MergeStep

SpecMerge == Init /\ [][NextMerge]_vars

(* A merge of an upper tree that holds a link above an opaque directory *)

MaxGraftOps == 5
GraftLowerDirs == {"/a", "/a/b"}
GraftLowerLinks == {"/b"}
GraftUpperLinks == {"/a"}
GraftTargets == {"/"}
GraftUpperPaths == {"/a/b", "/a/b/.wh..wh..opq"}

\* the program runs, no merge is under way, and the longer run may go on
GraftIdle == last.err # StackOverflow /\ walk = <<>> /\ ops < MaxGraftOps

\* an Add* call on lower (onLower) or on upper with outcome r
GraftAdd(onLower, op, p, l, r) ==
    /\ GraftIdle
    /\ ops' = ops + 1
    /\ lower' = IF onLower THEN r.tree ELSE Through(lower, r.tree, aliased)
    /\ upper' = IF onLower THEN Through(upper, r.tree, aliased) ELSE r.tree
    /\ minted' = r.minted
    /\ last' = Last(op, p, l, {}, r.err, FALSE, r.ref)
    /\ UNCHANGED <<walk, aliased>>

GraftLowerAddDir == \E p \in GraftLowerDirs : GraftAdd(TRUE, "AddDir", p, "", AddDir(lower, minted, p))

GraftLowerAddSymLink ==
    \E p \in GraftLowerLinks, l \in GraftTargets :
        GraftAdd(TRUE, "AddSymLink", p, l, AddSymLink(lower, minted, p, l))

GraftUpperAddFile ==
    \E p \in GraftUpperPaths : GraftAdd(FALSE, "UpperAddFile", p, "", AddFile(upper, minted, p))

GraftUpperAddSymLink ==
    \E p \in GraftUpperLinks, l \in GraftTargets :
        GraftAdd(FALSE, "UpperAddSymLink", p, l, AddSymLink(upper, minted, p, l))

GraftMergeStart ==
    /\ GraftIdle
    /\ ops' = ops + 1
    /\ walk' = <<DirSeparator>>
    /\ last' = Last("merge", "", "", {}, NoErr, upper = Copy(lower), NoRef)
    /\ UNCHANGED <<lower, upper, minted, aliased>>

NextGraft ==
    \/ GraftLowerAddDir
    \/ GraftLowerAddSymLink
    \/ GraftUpperAddFile
    \/ GraftUpperAddSymLink
    \/ GraftMergeStart
    \/ MergeStep

SpecGraft == Init /\ [][NextGraft]_vars

-----------------------------------------------------------------------------
(* Properties *)

AddOps == {"AddFile", "AddDir", "AddSymLink", "AddHardLink"}

\* every node but the root sits under a directory node
WellFormed(t) ==
    \A k \in DOMAIN t \ {DirSeparator} :
        /\ HasParent(k)
        /\ ParentPath(k) \in DOMAIN t
        /\ t[ParentPath(k)].FileType = TypeDir

\* the chain of link targets from the node at p comes back to a path it has
\* already passed
RECURSIVE ChainCycles(_, _, _)
ChainCycles(t, p, visited) ==
    LET n == TreeNode(t, p) IN
    IF n = Nil \/ ~IsLink(n) THEN FALSE
    ELSE IF p \in visited THEN TRUE
    ELSE ChainCycles(t, Normalize(NextPath(n)), visited \cup {p})

\* C1: link resolution terminates on every tree and every query path, and
\* a lookup that ends in ErrLinkCycleDetected has followed no more links
\* than the tree has nodes.
C1_ResolutionTerminates ==
    /\ last.op \in {"File", "RemovePath", "RemoveChildPaths"} => last.err # StackOverflow
    /\ \A p \in QueryPaths, o \in Options :
           LET f == File(lower, p, o) IN
           /\ f.err # StackOverflow
           /\ f.err = ErrLinkCycleDetected => f.steps <= TreeLength(lower)

\* C2: when the chain of link targets from the link at p returns to a path
\* already visited, File(p, FollowBasenameLinks) returns exists=false, a nil
\* reference and ErrLinkCycleDetected.
C2_ChainCycleIsReported ==
    \A p \in DOMAIN lower :
        ChainCycles(lower, p, {}) =>
            LET f == File(lower, p, {"FollowBasenameLinks"}) IN
            f.exists = FALSE /\ f.ref = NoRef /\ f.err = ErrLinkCycleDetected

\* C3: after an Add* call on p returns without error, HasPath(p) is true.
C3_AddedPathIsPresent ==
    (last.op \in AddOps /\ last.err = NoErr) => HasPath(lower, last.path)

\* some link of t resolves to the node at real path p
LinkResolvesTo(t, p) ==
    \E k \in DOMAIN t :
        /\ IsLink(t[k])
        /\ LET r == Node(t, k, Strategy(TRUE, TRUE, FALSE))
           IN  r.err = NoErr /\ r.node # Nil /\ r.node.RealPath = Normalize(p)

\* C4: after RemovePath(p) returns without error, HasPath(p) is false unless
\* a link that resolves to p still exists.
C4_RemovedPathIsAbsent ==
    (last.op = "RemovePath" /\ last.err = NoErr) =>
        (~HasPath(lower, last.path) /\ ~HasPathDiverges(lower, last.path))
        \/ LinkResolvesTo(lower, last.path)

\* every node of t but the root has a node at the parent of its real path
ParentsPresent(t) ==
    \A k \in DOMAIN t \ {DirSeparator} : HasParent(k) /\ ParentPath(k) \in DOMAIN t

\* C5: in every reachable state, also while a merge is under way, every
\* node other than the root has a node at the parent of its real path.
C5_NoOrphans == ParentsPresent(lower) /\ ParentsPresent(upper)

\* a directory with a child has been removed, or a merge has grafted a node
\* two levels down
C5_Witness ==
    \/ /\ last.op = "RemovePath" /\ last.path = "/a" /\ last.err = NoErr
       /\ "/a" \notin DOMAIN lower /\ minted["/a/b"] > 0
    \/ /\ last.op = "merge" /\ walk = <<>> /\ last.err = NoErr
       /\ "/a/a" \in DOMAIN lower

\* C6: the parent of every node other than the root is a Directory.
C6_ParentIsDirectory == WellFormed(lower) /\ WellFormed(upper)

RootIsDirectory(t) == DirSeparator \in DOMAIN t /\ t[DirSeparator].FileType = TypeDir

\* C7: the root is there, a Directory, in every reachable state, and
\* RemovePath of a path that normalizes to "/" returns ErrRemovingRoot and
\* leaves the tree as it was.
C7_RootStays ==
    [][/\ RootIsDirectory(lower) /\ RootIsDirectory(lower')
       /\ (last'.op = "RemovePath" /\ ops' = ops + 1 /\ Normalize(last'.path) = DirSeparator)
              => (last'.err = ErrRemovingRoot /\ lower' = lower)]_vars

\* RemovePath("/a/..") was refused on a tree that has more than the root
C7_Witness ==
    /\ last.op = "RemovePath" /\ last.path = "/a/.." /\ last.err = ErrRemovingRoot
    /\ TreeLength(lower) > 1

\* lower.merge(upper) has returned without error
MergeReturned == last.op = "merge" /\ walk = <<>> /\ last.err = NoErr

\* the whiteout marker at k is the only whiteout or opaque marker of t
OnlyMarker(t, k) ==
    /\ IsWhiteout(k) /\ ~IsDirWhiteout(k)
    /\ \A j \in DOMAIN t : IsWhiteout(j) => j = k

\* p is k or a path under k
AtOrUnder(p, k) == p = k \/ HasPrefix(p, k \o DirSeparator)

\* C8: when upper holds a whiteout marker d/.wh.n and no other marker, then
\* after lower.merge(upper) returned without error lower has no node at or
\* under d/n, has a node at d, and has no node at the marker path.
C8_WhiteoutRemoves ==
    MergeReturned =>
        \A k \in DOMAIN upper :
            OnlyMarker(upper, k) =>
                /\ \A p \in DOMAIN lower : ~AtOrUnder(p, UnWhiteoutPath(k))
                /\ ParentPath(k) \in DOMAIN lower
                /\ k \notin DOMAIN lower

\* the children of d in t that are no markers
PlainChildren(t, d) == {k \in TreeChildren(t, d) : ~IsWhiteout(k)}

\* upper holds the opaque sentinel directly inside d
IsOpaque(d) == Join(d, OpaqueWhiteout) \in DOMAIN upper

\* C9: when upper holds the opaque sentinel directly inside d, lower has no
\* child of d left once the merge has visited d and before it visits a child
\* of d, and after the merge returned without error the children of d in
\* lower are the children of d in upper that are no markers.
C9_OpaqueReplacesChildren ==
    \A d \in DOMAIN upper :
        IsOpaque(d) =>
            /\ (last.op = "merge" /\ last.path = d /\ last.err = NoErr)
                   => TreeChildren(lower, d) = {}
            /\ MergeReturned => TreeChildren(lower, d) = PlainChildren(upper, d)

\* the real paths of t with the kind and the link target at each
Shape(t) == [k \in DOMAIN t |-> <<t[k].FileType, t[k].LinkPath>>]

\* C10: a merge of a copy of the tree onto the tree returns without error
\* and leaves the tree with the paths, kinds, link targets and node count it
\* had.
C10_SelfMergeIsIdentity ==
    (last.op = "merge" /\ last.path # "" /\ walk = <<>> /\ last.exists) =>
        /\ last.err = NoErr
        /\ Shape(lower) = Shape(upper)
        /\ TreeLength(lower) = TreeLength(upper)

\* the reference the node installed for upper node u carries when prev was the
\* node of lower at the path of u (Nil for none)
InheritedReference(prev, u) ==
    IF prev # Nil /\ prev.FileType = u.FileType /\ u.Reference = NoRef /\ prev.Reference # NoRef
    THEN prev.Reference
    ELSE u.Reference

\* the merge visits the upper node at p, which is no marker, in this step and
\* the visitor returns without error
VisitsPlain(p) ==
    /\ walk # <<>> /\ Head(walk) = p
    /\ ShouldVisit(p) /\ ~IsWhiteout(p)
    /\ last'.op = "merge" /\ last'.err = NoErr

\* C11: the node a merge installs in lower for a visited upper node u that is
\* no whiteout has the kind and the link target of u, and carries the
\* reference lower had at that path before the visit exactly when lower had
\* a node of the kind of u there with a reference and u has none; otherwise
\* it carries the reference of u.
C11_ReferenceInheritance ==
    [][\A p \in DOMAIN upper :
          VisitsPlain(p) =>
              /\ p \in DOMAIN lower'
              /\ lower'[p].FileType = upper[p].FileType
              /\ lower'[p].LinkPath = upper[p].LinkPath
              /\ lower'[p].Reference = InheritedReference(TreeNode(lower, p), upper[p])]_vars

\* what File returns, without the count of steps of the model
Returned(f) == [exists |-> f.exists, ref |-> f.ref, err |-> f.err]

\* the last link of the chain of targets from the link at p when the chain
\* ends at a path with no node; Nil when it ends at a node, cycles or does
\* not resolve. A target is looked up as the code looks it up, through the
\* links among its ancestors.
RECURSIVE DeadChainEnd(_, _, _)
DeadChainEnd(t, p, visited) ==
    LET r == ResolveAncestorLinks(t, NextPath(t[p]), {}, 0) IN
    IF p \in visited \/ r.err # NoErr THEN Nil
    ELSE IF r.node = Nil THEN t[p]
    ELSE IF ~IsLink(r.node) THEN Nil
    ELSE DeadChainEnd(t, r.node.RealPath, visited \cup {p})

DeadLinks(t) == {p \in DOMAIN t : IsLink(t[p]) /\ DeadChainEnd(t, p, {}) # Nil}

\* C12: for a link p whose chain of targets ends at a path with no node,
\* File(p, FollowBasenameLinks) returns exists=false, and with
\* DoNotFollowDeadBasenameLinks added it returns exists=true and the
\* reference of the last link of the chain; DoNotFollowDeadBasenameLinks
\* without FollowBasenameLinks changes nothing of what File returns.
C12_DeadLinkPolicy ==
    /\ \A p \in DeadLinks(lower) :
           /\ File(lower, p, {"FollowBasenameLinks"}).exists = FALSE
           /\ Returned(File(lower, p, {"FollowBasenameLinks", "DoNotFollowDeadBasenameLinks"}))
                  = [exists |-> TRUE, ref |-> DeadChainEnd(lower, p, {}).Reference, err |-> NoErr]
    /\ \A p \in DOMAIN lower \cup QueryPaths :
           Returned(File(lower, p, {"DoNotFollowDeadBasenameLinks"})) = Returned(File(lower, p, {}))

\* the path of the node the chain of targets from the link at p ends at, ""
\* when the chain is dead or cycles; every target is taken as it is written
RECURSIVE ChainEnd(_, _, _)
ChainEnd(t, p, visited) ==
    IF p \notin DOMAIN t \/ p \in visited THEN ""
    ELSE IF ~IsLink(t[p]) THEN p
    ELSE ChainEnd(t, Normalize(NextPath(t[p])), visited \cup {p})

\* the symbolic links of t that resolve to a directory
DirLinks(t) ==
    {l \in DOMAIN t : /\ t[l].FileType = TypeSymlink
                      /\ ChainEnd(t, l, {}) # ""
                      /\ t[ChainEnd(t, l, {})].FileType = TypeDir}

Rests == {"a", "b"}

\* C13: for a symbolic link L that resolves to the directory D and a path
\* L/rest with no node of its own, File(L/rest) returns the exists flag and
\* the reference File(D/rest) returns; File(L, FollowBasenameLinks) returns
\* the reference of the node at D, and File(L) without options the
\* reference of the link itself.
C13_AncestorLinksAreFollowed ==
    \A l \in DirLinks(lower) :
        /\ \A rest \in Rests, o \in Options :
               Join(l, rest) \notin DOMAIN lower =>
                   Returned(File(lower, Join(l, rest), o))
                       = Returned(File(lower, Join(ChainEnd(lower, l, {}), rest), o))
        /\ Returned(File(lower, l, {"FollowBasenameLinks"}))
               = [exists |-> TRUE, ref |-> lower[ChainEnd(lower, l, {})].Reference, err |-> NoErr]
        /\ Returned(File(lower, l, {}))
               = [exists |-> TRUE, ref |-> lower[l].Reference, err |-> NoErr]

ProbePaths == {"/a", "/a/b", "/b/a", "/b/b"}

\* the resolution of p does not end at a link: the node stored at p is no
\* link, or no node is stored at p and the lookup through the links among
\* its ancestors ends at no node or at a node that is no link
EndsOffLink(t, p) ==
    IF p \in DOMAIN t THEN ~IsLink(t[p])
    ELSE LET r == ResolveAncestorLinks(t, p, {}, 0) IN r.node = Nil \/ ~IsLink(r.node)

\* File returns f for p under every combination of options
SameUnderAll(t, p, f) == \A o \in Options : Returned(File(t, p, o)) = f

\* C14: for a path whose resolution does not end at a link, File returns
\* the same exists flag, reference and error under every combination of
\* FollowBasenameLinks and DoNotFollowDeadBasenameLinks.
C14_OptionsOnlyMatterAtLinks ==
    \A p \in ProbePaths : EndsOffLink(lower, p) => SameUnderAll(lower, p, Returned(File(lower, p, {})))

\* File has been called with both options on a path with no node of its
\* own and has found a node that is no link through a link above the path
C14_Witness ==
    /\ last.op = "File" /\ last.options = {"FollowBasenameLinks", "DoNotFollowDeadBasenameLinks"}
    /\ last.path \notin DOMAIN lower
    /\ EndsOffLink(lower, last.path)
    /\ last.exists /\ last.ref # NoRef

\* the kind of node an Add* operation asks for
KindOf(op) ==
    CASE op = "AddFile" -> TypeReg
      [] op = "AddDir" -> TypeDir
      [] op = "AddSymLink" -> TypeSymlink
      [] op = "AddHardLink" -> TypeHardLink

\* this step is a call of an Add* operation on the lower tree for path p
AddCalled(p) == last'.op \in AddOps /\ last'.path = p /\ ops' = ops + 1

Ancestors(p) == {ConstituentPaths(p)[i] : i \in 1..Len(ConstituentPaths(p))} \ {p}

\* C15: an Add* call for a path p with no node leaves a node at every
\* ancestor of p: a directory without reference where none was, the node
\* that was there with its kind, link target, reference and children
\* otherwise; the node at p has the kind asked for and a reference; and no
\* node outside p and its ancestors is added, removed or changed.
C15_AncestorsMaterialize ==
    [][\A p \in TreePaths :
          (AddCalled(p) /\ p \notin DOMAIN lower) =>
              /\ \A k \in Ancestors(p) :
                     /\ k \in DOMAIN lower'
                     /\ k \notin DOMAIN lower => lower'[k] = NewDir(k, NoRef)
                     /\ k \in DOMAIN lower =>
                            lower'[k] = lower[k] /\ TreeChildren(lower, k) \subseteq TreeChildren(lower', k)
              /\ p \in DOMAIN lower'
              /\ lower'[p].FileType = KindOf(last'.op)
              /\ lower'[p].Reference # NoRef
              /\ lower'[p].Reference = last'.ref
              /\ DOMAIN lower' \ (Ancestors(p) \cup {p}) = DOMAIN lower \ Ancestors(p)
              /\ \A k \in DOMAIN lower \ Ancestors(p) : lower'[k] = lower[k]]_vars

\* an Add* call has put a node with a reference under a directory that it
\* had to create, in a tree that held other nodes
C15_Witness ==
    /\ last.op \in AddOps /\ last.path = "/a/b" /\ last.err = NoErr
    /\ lower["/a"] = NewDir("/a", NoRef)
    /\ lower["/a/b"].Reference = last.ref /\ last.ref # NoRef
    /\ "/b" \in DOMAIN lower

\* C16: an AddFile, AddDir, AddSymLink or AddHardLink call on a path that
\* holds a node of another kind returns an error and a nil reference and
\* leaves the whole tree as it was.
C16_KindMismatchIsRefused ==
    [][\A p \in TreePaths :
          (AddCalled(p) /\ p \in DOMAIN lower /\ lower[p].FileType # KindOf(last'.op)) =>
              /\ last'.err # NoErr
              /\ last'.ref = NoRef
              /\ lower' = lower]_vars

\* AddDir has been refused on a path that holds a link with a reference
C16_Witness ==
    /\ last.op = "AddDir" /\ last.err = ErrKindMismatch /\ last.ref = NoRef
    /\ last.path \in DOMAIN lower
    /\ IsLink(lower[last.path]) /\ lower[last.path].Reference # NoRef

\* the references the nodes of t carry
References(t) == {t[k].Reference : k \in DOMAIN t} \ {NoRef}

\* C17: an Add* call on a path that holds a node of the kind asked for
\* succeeds; it returns the reference of the node when the node has one and
\* leaves the tree as it was, and otherwise attaches a fresh reference,
\* returns it and changes nothing else. The same call made twice in a row
\* returns the same reference and the second call leaves the tree as it was.
C17_ReAddKeepsReference ==
    [][\A p \in TreePaths :
          /\ (AddCalled(p) /\ p \in DOMAIN lower /\ lower[p].FileType = KindOf(last'.op)) =>
                 /\ last'.err = NoErr
                 /\ lower[p].Reference # NoRef => last'.ref = lower[p].Reference /\ lower' = lower
                 /\ lower[p].Reference = NoRef =>
                        /\ last'.ref \notin References(lower) \cup {NoRef}
                        /\ lower' = [lower EXCEPT ![p].Reference = last'.ref]
          /\ (AddCalled(p) /\ last.op = last'.op /\ last.path = p /\ last.link = last'.link
                  /\ last.err = NoErr) =>
                 last'.ref = last.ref /\ last'.err = NoErr /\ lower' = lower]_vars

\* AddDir has been called on a directory that an AddFile below it had
\* created without reference, and has attached the first reference to it
C17_Witness ==
    /\ last.op = "AddDir" /\ last.path = "/a" /\ last.err = NoErr
    /\ "/a/b" \in DOMAIN lower
    /\ last.ref = [id |-> 1, RealPath |-> "/a"]
    /\ lower["/a"].Reference = last.ref

LinkOps == {"AddSymLink", "AddHardLink"}

\* C18 as the specification states it: after AddSymLink(p, t2) or
\* AddHardLink(p, t2) on a path that holds a link of that kind with another
\* target, the node at p has the link target t2.
C18_ReAddReplacesTarget ==
    (last.op \in LinkOps /\ last.err = NoErr) => lower[last.path].LinkPath = last.link

\* C18: an AddSymLink or AddHardLink call on a path that holds a link of
\* that kind with another target succeeds, returns the reference of the
\* node and leaves the node with the target it had, so that File with
\* FollowBasenameLinks returns what it returned before the call.
C18_ReAddKeepsTarget ==
    [][\A p \in TreePaths :
          (/\ AddCalled(p) /\ last'.op \in LinkOps
           /\ p \in DOMAIN lower /\ lower[p].FileType = KindOf(last'.op)
           /\ lower[p].LinkPath # last'.link) =>
              /\ last'.err = NoErr
              /\ lower[p].Reference # NoRef => last'.ref = lower[p].Reference
              /\ lower'[p].LinkPath = lower[p].LinkPath
              /\ Returned(File(lower', p, {"FollowBasenameLinks"}))
                     = Returned(File(lower, p, {"FollowBasenameLinks"}))]_vars

\* AddHardLink has returned without error for a target the node does not have
C18_Witness ==
    /\ last.op = "AddHardLink" /\ last.err = NoErr
    /\ lower[last.path].FileType = TypeHardLink
    /\ lower[last.path].LinkPath # last.link

\* the node RemovePath(p) resolves p to: links are followed among the
\* ancestors of p and not at its basename
Resolved(t, p) == Node(t, p, Strategy(TRUE, FALSE, FALSE))

\* the paths of t at or under path d
Under(t, d) == {k \in DOMAIN t : AtOrUnder(k, d)}

\* lower' is lower without the nodes at or under path d
RemovedExactly(d) ==
    /\ DOMAIN lower' = DOMAIN lower \ Under(lower, d)
    /\ \A k \in DOMAIN lower' : lower'[k] = lower[k]

\* the node the link at d points to is in lower' with all its descendants;
\* the link itself, which is removed, may be one of them
TargetRemains(d) ==
    ChainEnd(lower, d, {}) # "" =>
        /\ ChainEnd(lower, d, {}) \in DOMAIN lower'
        /\ Under(lower, ChainEnd(lower, d, {})) \ {d} \subseteq DOMAIN lower'

\* RemovePath(p) has returned r for a lookup of p that ended at node n
RemovedAt(n) ==
    IF n = Nil THEN last'.err = NoErr /\ lower' = lower
    ELSE /\ last'.err = NoErr
         /\ RemovedExactly(n.RealPath)
         /\ IsLink(n) => TargetRemains(n.RealPath)

\* C19: RemovePath(p) follows links among the ancestors of p and not at its
\* basename. It removes the node p resolves to with all its descendants in
\* one step and changes no other node; when that node is a link the node
\* the link points to stays with its descendants; when p resolves to no
\* node it returns no error and changes nothing.
C19_RemoveTakesTheSubtreeOnly ==
    [][\A p \in RemovePaths :
          (/\ last'.op = "RemovePath" /\ last'.path = p /\ ops' = ops + 1
           /\ Normalize(p) # DirSeparator
           /\ Resolved(lower, p).err = NoErr) =>
              RemovedAt(Resolved(lower, p).node)]_vars

LowerOps == AddOps \cup {"RemovePath", "RemoveChildPaths", "merge"}
UpperOps == {"UpperAddFile", "UpperAddDir", "UpperAddSymLink"}

\* C20: right after c = t.Copy(), t.Equal(c) holds and c has the kind, the
\* link target and the reference t has at every path; and an Add*,
\* RemovePath, RemoveChildPaths or merge applied to one of the two trees
\* leaves the paths, kinds, link targets and references of the other as
\* they were, also when an Add* attaches a reference to a node that had none.
C20_CopyIsIndependent ==
    [][/\ last'.op = "Copy" =>
              /\ Equal(lower', upper')
              /\ \A k \in DOMAIN lower' :
                     /\ upper'[k].FileType = lower'[k].FileType
                     /\ upper'[k].LinkPath = lower'[k].LinkPath
                     /\ upper'[k].Reference = lower'[k].Reference
       /\ last'.op \in LowerOps => upper' = upper
       /\ last'.op \in UpperOps => lower' = lower]_vars

\* upper is a copy of lower taken when /a was a directory without
\* reference; AddDir on lower has since attached a reference to /a, and the
\* copy still has none there
C20_Witness ==
    /\ last.op = "AddDir" /\ last.path = "/a" /\ last.err = NoErr
    /\ lower["/a"].Reference = last.ref /\ last.ref # NoRef
    /\ "/a" \in DOMAIN upper /\ upper["/a"] = NewDir("/a", NoRef)
    /\ "/a/b" \in DOMAIN lower \cap DOMAIN upper
    /\ lower["/a/b"] = upper["/a/b"] /\ lower["/a/b"].Reference # NoRef

FollowBoth == Strategy(TRUE, TRUE, FALSE)

\* what ListPaths is to return for dir when dir resolves to node n: nothing
\* when n is absent or no directory, and otherwise for each child of n the
\* path dir joined with the basename of the child
Listing(t, dir, n) ==
    IF n = Nil \/ n.FileType # TypeDir THEN <<>>
    ELSE [c \in TreeChildren(t, n.RealPath) |-> Join(dir, Basename(c))]

\* the outcome r of ListPaths(dir) is the listing of the node that dir
\* resolves to, n being the outcome of that resolution
ListsResolved(t, dir, n, r) == n.err = NoErr => r.err = NoErr /\ r.listing = Listing(t, dir, n.node)

\* C21: ListPaths(dir) resolves dir with links followed among the ancestors
\* and at the basename; when the result is absent or no directory the
\* listing is empty and there is no error; otherwise the listing has one
\* path for each direct child of the resolved directory, dir joined with
\* the basename of the child.
C21_ListPathsListsUnderDir ==
    \A dir \in ListDirs : ListsResolved(lower, dir, Node(lower, dir, FollowBoth), ListPaths(lower, dir))

\* ListPaths has been called on /b, a symbolic link to the directory /a
\* that holds /a/b, and has returned /b/b for it
C21_Witness ==
    /\ last.op = "ListPaths" /\ last.path = "/b" /\ last.err = NoErr
    /\ "/b" \in DOMAIN lower /\ lower["/b"].FileType = TypeSymlink
    /\ "/a/b" \in DOMAIN lower /\ lower["/a"].FileType = TypeDir
    /\ DOMAIN last.listing = {"/a/b"}
    /\ last.listing["/a/b"] = "/b/b"

\* p is no whiteout marker and no opaque sentinel and lies under none
Unmarked(p) == ~IsWhiteout(p) /\ \A a \in Ancestors(p) : ~IsWhiteout(a)

\* upper holds a whiteout marker for c or the opaque sentinel next to c
Targeted(c) ==
    /\ HasParent(c)
    /\ \/ Join(ParentPath(c), WhiteoutPrefix \o Basename(c)) \in DOMAIN upper
       \/ Join(ParentPath(c), OpaqueWhiteout) \in DOMAIN upper

\* t holds every unmarked node of upper with the kind and link target it has
\* in upper
HoldsUpper(t) ==
    \A p \in DOMAIN upper :
        Unmarked(p) =>
            /\ p \in DOMAIN t
            /\ t[p].FileType = upper[p].FileType
            /\ t[p].LinkPath = upper[p].LinkPath

\* every child that t has under an unmarked path of upper and that no marker
\* of upper targets is a child of that path in after as well
KeepsChildren(t, after) ==
    \A p \in DOMAIN upper \cap DOMAIN t :
        Unmarked(p) =>
            \A c \in TreeChildren(t, p) : ~Targeted(c) => c \in TreeChildren(after, p)

\* C22: once lower.merge(upper) has returned without error, lower holds
\* every node of upper that is no whiteout marker and no opaque sentinel and
\* lies under no whiteout marker, at the same path with the kind and link
\* target of upper; and no visit of the merge takes away a child that lower
\* has under such a path and that no marker of upper targets.
C22_MergeGraftsUpper ==
    [][(walk # <<>> /\ last'.op = "merge" /\ last'.err = NoErr) =>
          /\ walk' = <<>> => HoldsUpper(lower')
          /\ KeepsChildren(lower, lower')]_vars

\* the kind, the link target and the reference t has at each of its paths
Facts(t) == [k \in DOMAIN t |-> <<t[k].FileType, t[k].LinkPath, t[k].Reference>>]

\* C23: no step of lower.merge(upper), and no Add*, RemovePath or
\* RemoveChildPaths on lower, before or after a merge, changes the set of
\* paths of upper or the kind, link target or reference upper has at any
\* path.
C23_MergeLeavesUpper ==
    [][(last'.op = "merge" \/ (last'.op \in LowerOps /\ ops' = ops + 1)) => Facts(upper') = Facts(upper)]_vars

\* a merge has grafted the directory /a and the file /a/a of upper into
\* lower, /a without reference; AddDir on lower has since attached a
\* reference to /a, and upper still has none there
C23_Witness ==
    /\ last.op = "AddDir" /\ last.path = "/a" /\ last.err = NoErr
    /\ "/a/a" \in DOMAIN lower \cap DOMAIN upper /\ lower["/a/a"] = upper["/a/a"]
    /\ lower["/a"].Reference = last.ref /\ last.ref # NoRef
    /\ upper["/a"] = NewDir("/a", NoRef)

\* the index of the first constituent path of cs from i on that holds a
\* link, 0 when an absent path or the end of cs comes first
RECURSIVE FirstLink(_, _, _)
FirstLink(t, cs, i) ==
    IF i > Len(cs) THEN 0
    ELSE IF cs[i] \notin DOMAIN t THEN 0
    ELSE IF IsLink(t[cs[i]]) THEN i
    ELSE FirstLink(t, cs, i + 1)

\* p with the link at its prefix c replaced by the target of the link
Rewritten(t, p, c) == Normalize(NextPath(t[c]) \o TrimPrefix(p, c))

\* following the links of t from path p, the first link on the path each
\* time, comes to a path without a link within fuel steps
RECURSIVE ChaseFrom(_, _, _, _)
Chase(t, p, fuel) == ChaseFrom(t, p, fuel, FirstLink(t, ConstituentPaths(p), 1))
ChaseFrom(t, p, fuel, i) ==
    IF i = 0 THEN TRUE
    ELSE IF fuel = 0 THEN FALSE
    ELSE Chase(t, Rewritten(t, p, ConstituentPaths(p)[i]), fuel - 1)

\* more steps than a chain of t that comes to an end takes
Fuel(t) == 2 * TreeLength(t)

\* no chain of link targets of t returns to a link it is following, the
\* links at the ancestors of the targets included: from every link the chain
\* comes to an end
Acyclic(t) == \A k \in DOMAIN t : IsLink(t[k]) => Chase(t, k, Fuel(t))

CyclePaths == {"/a", "/a/b", "/b/b", "/a/b/b"}

\* C24: on a tree whose link structure is acyclic, File returns a nil error
\* for every path and every option set, and exists=false for a path that
\* has no node and no link on the way to it; and RemovePath,
\* RemoveChildPaths and ListPaths do not return ErrLinkCycleDetected.
C24_NoSpuriousCycleError ==
    Acyclic(lower) =>
        /\ \A p \in CyclePaths, o \in Options :
               /\ File(lower, p, o).err = NoErr
               /\ (p \notin DOMAIN lower /\ FirstLink(lower, ConstituentPaths(p), 1) = 0)
                      => ~File(lower, p, o).exists
        /\ \A p \in RemovePaths : RemovePath(lower, p).err # ErrLinkCycleDetected
        /\ \A p \in ChildPaths : RemoveChildPaths(lower, p).err # ErrLinkCycleDetected
        /\ \A dir \in ListDirs : ListPaths(lower, dir).err # ErrLinkCycleDetected

\* /a/b is a symbolic link to its own parent directory /a in a tree whose
\* link structure is acyclic; ListPaths has listed /a without error, and a
\* lookup of /a/b/b, which follows the link twice, finds the directory
C24_Witness ==
    /\ last.op = "ListPaths" /\ last.path = "/a" /\ last.err = NoErr
    /\ "/a/b" \in DOMAIN lower /\ lower["/a/b"] = NewSymLink("/a/b", "/a", lower["/a/b"].Reference)
    /\ lower["/a"].FileType = TypeDir
    /\ Acyclic(lower)
    /\ File(lower, "/a/b/b", {"FollowBasenameLinks"}).exists
    /\ File(lower, "/a/b/b", {"FollowBasenameLinks"}).ref = lower["/a"].Reference

====
